---- MODULE Spec2Model ----
(***************************************************************************)
(* Model of spawn_clean_orderpool_job                                      *)
(* (crates/rbuilder/src/live_builder/order_input/clean_orderpool.rs).      *)
(*                                                                         *)
(* Several invocations of the job share one Arc<Mutex<OrderPool>> and one  *)
(* CancellationToken.  Every invocation owns its provider, hence its own   *)
(* header subscription.  The environment is the node transport (delivers   *)
(* headers, closes the stream), any other holder of the token (cancels)    *)
(* and any other holder of the pool mutex (locks, mutates, unlocks).       *)
(***************************************************************************)
EXTENDS Naturals, Sequences, FiniteSets

\* ---------------------------------------------------------------- bounds
\* Headers the node delivers over all subscriptions together (Spec).
MaxEvents == 2
\* The same budget in the specification with fairness (FairSpec).
MaxFairEvents == 1

\* The invocations of spawn_clean_orderpool_job sharing pool and token.
Jobs == {"j1", "j2"}

\* Holders of the pool mutex other than the jobs.
Mutator == "mutator"
Free == "free"

\* A header is its Option<U64> `number` field: <<>> is None, <<n>> is Some(n).
\* The job only passes the number on, so two distinct values show every case.
NoNumber == <<>>
Headers == {NoNumber, <<1>>}

\* A gauge before its first write; a written gauge is the tuple of its values.
Unset == <<>>

VARIABLES
    caller,         \* per job: where the awaiting caller of the function is
    task,           \* per job: where the spawned task is ("none": not spawned)
    cancelled,      \* global_cancellation: is the token cancelled
    cancel_calls,   \* per job: how often the task called global_cancellation.cancel()
    lock,           \* holder of the Mutex<OrderPool>
    pool,           \* the OrderPool: [tx, bundle] pending counts
    events,         \* per job: headers its subscription received, in arrival order
    taken,          \* per job: how many of them new_block_stream.next() has yielded
    closed,         \* per job: the transport has closed the subscription
    fetch_ok,       \* per job: results of provider_factory.latest(), one per yielded header
    calls,          \* per job: block numbers passed to OrderPool::head_updated, in call order
    block_number,   \* per job: local `block_number` of the running cycle
    counts,         \* per job: locals (tx_count, bundle_count) of the running cycle
    after_sync,     \* per job: the pool as its head_updated call of this cycle left it
    current_block,  \* telemetry gauge written by set_current_block
    ordepool_count, \* telemetry gauges written by set_ordepool_count
    subscribed,     \* per job: the task's subscribe_blocks() returned Ok (new_block_stream exists)
    last_sync,      \* the pool's counts as the latest head_updated call of any job left them
    written         \* per job: the gauges its running cycle (between cycles: its last one) wrote

vars == <<caller, task, cancelled, cancel_calls, lock, pool, events, taken, closed,
          fetch_ok, calls, block_number, counts, after_sync, current_block,
          ordepool_count, subscribed, last_sync, written>>

\* ------------------------------------------------------------ pure parts

\* block.number.unwrap_or_default().as_u64()
BlockNumber(header) == IF header = NoNumber THEN 0 ELSE header[1]

\* The OrderPool as far as the job can see it: its two pending counts.
Pools == {[tx |-> 0, bundle |-> 0], [tx |-> 1, bundle |-> 0], [tx |-> 0, bundle |-> 1]}

\* OrderPool::head_updated: drops the orders the new state made stale.
HeadUpdatedResults(p, number) ==
    {q \in Pools : q.tx <= p.tx /\ q.bundle <= p.bundle}

\* OrderPool::content_count
ContentCount(p) == <<p.tx, p.bundle>>

\* Positions of the task inside `while let Some(block) = ... .next().await`.
LoopPcs == {"wait", "poll", "fetch", "lock", "sync", "count", "emit", "unlock"}
\* Positions at which the task owns the MutexGuard.
GuardPcs == {"sync", "count", "emit", "unlock"}

TotalEvents == Len(events["j1"]) + Len(events["j2"])

\* -------------------------------------------------------------- initial
Init ==
    /\ caller = [j \in Jobs |-> "connect"]
    /\ task = [j \in Jobs |-> "none"]
    /\ cancelled = FALSE
    /\ cancel_calls = [j \in Jobs |-> 0]
    /\ lock = Free
    /\ pool \in Pools
    /\ events = [j \in Jobs |-> <<>>]
    /\ taken = [j \in Jobs |-> 0]
    /\ closed = [j \in Jobs |-> FALSE]
    /\ fetch_ok = [j \in Jobs |-> <<>>]
    /\ calls = [j \in Jobs |-> <<>>]
    /\ block_number = [j \in Jobs |-> 0]
    /\ counts = [j \in Jobs |-> <<0, 0>>]
    /\ after_sync = [j \in Jobs |-> [tx |-> 0, bundle |-> 0]]
    /\ current_block = Unset
    /\ ordepool_count = Unset
    /\ subscribed = [j \in Jobs |-> FALSE]
    /\ last_sync = Unset
    /\ written = [j \in Jobs |-> {}]

\* ------------------------------------------------------------ bootstrap
TaskVars == <<cancelled, cancel_calls, lock, pool, events, taken, closed, fetch_ok,
              calls, block_number, counts, after_sync, current_block, ordepool_count,
              subscribed, last_sync, written>>

\* let ipc = Ipc::connect(config.ipc_path).await?;
Connect(j) ==
    /\ caller[j] = "connect"
    /\ \E ok \in BOOLEAN :
          caller' = [caller EXCEPT ![j] = IF ok THEN "trial_sub" ELSE "err_connect"]
    /\ UNCHANGED <<task, TaskVars>>

\* As TrialSubscribe, but the task is spawned before the trial subscription
\* is looked at, so a rejected subscription leaves a running task behind.
TrialSubscribeAfterSpawn(j) ==
    /\ caller[j] = "trial_sub"
    /\ \E ok \in BOOLEAN :
          IF ok
          THEN /\ caller' = [caller EXCEPT ![j] = "trial_unsub"]
               /\ UNCHANGED task
          ELSE /\ caller' = [caller EXCEPT ![j] = "err_subscribe"]
               /\ task' = [task EXCEPT ![j] = "subscribe"]
    /\ UNCHANGED TaskVars

\* let sub = provider.subscribe_blocks().await?;
TrialSubscribe(j) ==
    /\ caller[j] = "trial_sub"
    /\ \E ok \in BOOLEAN :
          caller' = [caller EXCEPT ![j] = IF ok THEN "trial_unsub" ELSE "err_subscribe"]
    /\ UNCHANGED <<task, TaskVars>>

\* As TrialUnsubscribe, but the result is propagated (`.await?`): a failed
\* teardown makes the bootstrap return the error.
TrialUnsubscribePropagates(j) ==
    /\ caller[j] = "trial_unsub"
    /\ \E ok \in BOOLEAN :
          caller' = [caller EXCEPT ![j] = IF ok THEN "unsub_ok" ELSE "err_subscribe"]
    /\ UNCHANGED <<task, TaskVars>>

\* sub.unsubscribe().await  (the result, Ok or Err, is in hand)
TrialUnsubscribe(j) ==
    /\ caller[j] = "trial_unsub"
    /\ \E ok \in BOOLEAN :
          caller' = [caller EXCEPT ![j] = IF ok THEN "unsub_ok" ELSE "unsub_err"]
    /\ UNCHANGED <<task, TaskVars>>

\* .unwrap_or_default(); let handle = tokio::spawn(..); Ok(handle)
Spawn(j) ==
    /\ caller[j] \in {"unsub_ok", "unsub_err"}
    /\ caller' = [caller EXCEPT ![j] = "handle"]
    /\ task' = [task EXCEPT ![j] = "subscribe"]
    /\ UNCHANGED TaskVars

\* ----------------------------------------------------------------- task

\* As SubscribeBlocks, but the Err arm returns without cancelling the token.
SubscribeBlocksSilentError(j) ==
    /\ task[j] = "subscribe"
    /\ \E ok \in BOOLEAN :
          /\ subscribed' = [subscribed EXCEPT ![j] = ok]
          /\ task' = [task EXCEPT ![j] = IF ok THEN "wait" ELSE "done"]
    /\ UNCHANGED <<caller, cancelled, cancel_calls, lock, pool, events, taken, closed,
                   fetch_ok, calls, block_number, counts, after_sync, current_block,
                   ordepool_count, last_sync, written>>

\* As SubscribeBlocks, but the Err arm lacks its `return`: it falls through
\* to the code after the loop.
SubscribeBlocksNoReturn(j) ==
    /\ task[j] = "subscribe"
    /\ \E ok \in BOOLEAN :
          /\ subscribed' = [subscribed EXCEPT ![j] = ok]
          /\ IF ok
             THEN /\ task' = [task EXCEPT ![j] = "wait"]
                  /\ UNCHANGED <<cancelled, cancel_calls>>
             ELSE /\ task' = [task EXCEPT ![j] = "exit"]
                  /\ cancelled' = TRUE
                  /\ cancel_calls' = [cancel_calls EXCEPT ![j] = @ + 1]
    /\ UNCHANGED <<caller, lock, pool, events, taken, closed, fetch_ok, calls,
                   block_number, counts, after_sync, current_block, ordepool_count>>
    /\ UNCHANGED <<last_sync, written>>

\* match provider.subscribe_blocks().await { Ok => take_until(..), Err => cancel, return }
SubscribeBlocks(j) ==
    /\ task[j] = "subscribe"
    /\ \E ok \in BOOLEAN :
          /\ subscribed' = [subscribed EXCEPT ![j] = ok]
          /\ IF ok
             THEN /\ task' = [task EXCEPT ![j] = "wait"]
                  /\ UNCHANGED <<cancelled, cancel_calls>>
             ELSE /\ task' = [task EXCEPT ![j] = "done"]
                  /\ cancelled' = TRUE
                  /\ cancel_calls' = [cancel_calls EXCEPT ![j] = @ + 1]
    /\ UNCHANGED <<caller, lock, pool, events, taken, closed, fetch_ok, calls,
                   block_number, counts, after_sync, current_block, ordepool_count>>
    /\ UNCHANGED <<last_sync, written>>

\* As PollCancelled, but a header that is ready wins over the token: the
\* token is only looked at when the subscription has nothing buffered.
PollCancelledAfterStream(j) ==
    /\ task[j] = "wait"
    /\ task' = [task EXCEPT ![j] =
                   IF cancelled /\ taken[j] = Len(events[j]) THEN "exit" ELSE "poll"]
    /\ UNCHANGED <<caller, TaskVars>>

\* TakeUntil::poll_next, first half: poll global_cancellation.cancelled();
\* when it is ready the stream ends without the inner stream being polled.
PollCancelled(j) ==
    /\ task[j] = "wait"
    /\ task' = [task EXCEPT ![j] = IF cancelled THEN "exit" ELSE "poll"]
    /\ UNCHANGED <<caller, TaskVars>>

\* As PollStream, but the subscription keeps only its newest header: what
\* was buffered before it is dropped unread.
PollStreamTakesNewest(j) ==
    /\ task[j] = "poll"
    /\ IF taken[j] < Len(events[j])
       THEN /\ taken' = [taken EXCEPT ![j] = Len(events[j])]
            /\ block_number' =
                  [block_number EXCEPT ![j] = BlockNumber(events[j][Len(events[j])])]
            /\ current_block' = <<BlockNumber(events[j][Len(events[j])])>>
            /\ written' = [written EXCEPT ![j] = {"current_block"}]
            /\ task' = [task EXCEPT ![j] = "fetch"]
       ELSE /\ task' = [task EXCEPT ![j] = IF closed[j] THEN "exit" ELSE "wait"]
            /\ UNCHANGED <<taken, block_number, current_block, written>>
    /\ UNCHANGED <<caller, cancelled, cancel_calls, lock, pool, events, closed,
                   fetch_ok, calls, counts, after_sync, ordepool_count>>
    /\ UNCHANGED <<subscribed, last_sync>>

\* As PollStream, but the end of the subscription is never reported: a closed,
\* drained stream stays pending.
PollStreamNeverEnds(j) ==
    /\ task[j] = "poll"
    /\ IF taken[j] < Len(events[j])
       THEN /\ taken' = [taken EXCEPT ![j] = @ + 1]
            /\ block_number' =
                  [block_number EXCEPT ![j] = BlockNumber(events[j][taken[j] + 1])]
            /\ current_block' = <<BlockNumber(events[j][taken[j] + 1])>>
            /\ written' = [written EXCEPT ![j] = {"current_block"}]
            /\ task' = [task EXCEPT ![j] = "fetch"]
       ELSE /\ task' = [task EXCEPT ![j] = "wait"]
            /\ UNCHANGED <<taken, block_number, current_block, written>>
    /\ UNCHANGED <<caller, cancelled, cancel_calls, lock, pool, events, closed,
                   fetch_ok, calls, counts, after_sync, ordepool_count>>
    /\ UNCHANGED <<subscribed, last_sync>>

\* TakeUntil::poll_next, second half: poll the subscription.  Some(block):
\* the loop body starts (block_number, set_current_block).  None: the loop
\* ends.  Pending: the task is suspended until woken.
PollStream(j) ==
    /\ task[j] = "poll"
    /\ IF taken[j] < Len(events[j])
       THEN /\ taken' = [taken EXCEPT ![j] = @ + 1]
            /\ block_number' =
                  [block_number EXCEPT ![j] = BlockNumber(events[j][taken[j] + 1])]
            /\ current_block' = <<BlockNumber(events[j][taken[j] + 1])>>
            /\ written' = [written EXCEPT ![j] = {"current_block"}]
            /\ task' = [task EXCEPT ![j] = "fetch"]
       ELSE /\ task' = [task EXCEPT ![j] = IF closed[j] THEN "exit" ELSE "wait"]
            /\ UNCHANGED <<taken, block_number, current_block, written>>
    /\ UNCHANGED <<caller, cancelled, cancel_calls, lock, pool, events, closed,
                   fetch_ok, calls, counts, after_sync, ordepool_count>>
    /\ UNCHANGED <<subscribed, last_sync>>

\* As Latest, but the Err arm leaves the loop (`break`) instead of `continue`.
LatestBreakOnError(j) ==
    /\ task[j] = "fetch"
    /\ \E ok \in BOOLEAN :
          /\ fetch_ok' = [fetch_ok EXCEPT ![j] = Append(@, ok)]
          /\ IF ok
             THEN /\ task' = [task EXCEPT ![j] = "lock"]
                  /\ UNCHANGED block_number
             ELSE /\ task' = [task EXCEPT ![j] = "exit"]
                  /\ block_number' = [block_number EXCEPT ![j] = 0]
    /\ UNCHANGED <<caller, cancelled, cancel_calls, lock, pool, events, taken, closed,
                   calls, counts, after_sync, current_block, ordepool_count>>
    /\ UNCHANGED <<subscribed, last_sync, written>>

\* As Latest, but the Err arm escalates: it cancels the token before `continue`.
LatestCancelOnError(j) ==
    /\ task[j] = "fetch"
    /\ \E ok \in BOOLEAN :
          /\ fetch_ok' = [fetch_ok EXCEPT ![j] = Append(@, ok)]
          /\ IF ok
             THEN /\ task' = [task EXCEPT ![j] = "lock"]
                  /\ UNCHANGED <<block_number, cancelled>>
             ELSE /\ task' = [task EXCEPT ![j] = "wait"]
                  /\ block_number' = [block_number EXCEPT ![j] = 0]
                  /\ cancelled' = TRUE
    /\ UNCHANGED <<caller, cancel_calls, lock, pool, events, taken, closed,
                   calls, counts, after_sync, current_block, ordepool_count>>
    /\ UNCHANGED <<subscribed, last_sync, written>>

\* As Latest, but the Err arm lacks its `continue`: the cycle goes on to the
\* pool without a state.
LatestFallsThrough(j) ==
    /\ task[j] = "fetch"
    /\ \E ok \in BOOLEAN :
          fetch_ok' = [fetch_ok EXCEPT ![j] = Append(@, ok)]
    /\ task' = [task EXCEPT ![j] = "lock"]
    /\ UNCHANGED <<caller, cancelled, cancel_calls, lock, pool, events, taken, closed,
                   calls, block_number, counts, after_sync, current_block,
                   ordepool_count>>
    /\ UNCHANGED <<subscribed, last_sync, written>>

\* let state = match provider_factory.latest() { Ok => state, Err => continue }
Latest(j) ==
    /\ task[j] = "fetch"
    /\ \E ok \in BOOLEAN :
          /\ fetch_ok' = [fetch_ok EXCEPT ![j] = Append(@, ok)]
          /\ IF ok
             THEN /\ task' = [task EXCEPT ![j] = "lock"]
                  /\ UNCHANGED block_number
             ELSE /\ task' = [task EXCEPT ![j] = "wait"]
                  /\ block_number' = [block_number EXCEPT ![j] = 0]
    /\ UNCHANGED <<caller, cancelled, cancel_calls, lock, pool, events, taken, closed,
                   calls, counts, after_sync, current_block, ordepool_count>>
    /\ UNCHANGED <<subscribed, last_sync, written>>

\* As Lock, but the pool is entered without waiting for the mutex.
LockWithoutWaiting(j) ==
    /\ task[j] = "lock"
    /\ lock' = j
    /\ task' = [task EXCEPT ![j] = "sync"]
    /\ UNCHANGED <<caller, cancelled, cancel_calls, pool, events, taken, closed,
                   fetch_ok, calls, block_number, counts, after_sync, current_block,
                   ordepool_count>>
    /\ UNCHANGED <<subscribed, last_sync, written>>

\* let mut orderpool = orderpool.lock().unwrap();
Lock(j) ==
    /\ task[j] = "lock"
    /\ lock = Free
    /\ lock' = j
    /\ task' = [task EXCEPT ![j] = "sync"]
    /\ UNCHANGED <<caller, cancelled, cancel_calls, pool, events, taken, closed,
                   fetch_ok, calls, block_number, counts, after_sync, current_block,
                   ordepool_count>>
    /\ UNCHANGED <<subscribed, last_sync, written>>

\* As HeadUpdated, but the MutexGuard is a temporary of the call statement
\* (orderpool.lock().unwrap().head_updated(..)) and is dropped right after it.
HeadUpdatedTemporaryGuard(j) ==
    /\ task[j] = "sync"
    /\ \E q \in HeadUpdatedResults(pool, block_number[j]) :
          /\ pool' = q
          /\ after_sync' = [after_sync EXCEPT ![j] = q]
          /\ last_sync' = ContentCount(q)
    /\ calls' = [calls EXCEPT ![j] = Append(@, block_number[j])]
    /\ lock' = Free
    /\ task' = [task EXCEPT ![j] = "count"]
    /\ UNCHANGED <<caller, cancelled, cancel_calls, events, taken, closed,
                   fetch_ok, block_number, counts, current_block, ordepool_count>>
    /\ UNCHANGED <<subscribed, written>>

\* As HeadUpdated, but the block number is read back from the shared
\* current-block gauge instead of the cycle's own local.
HeadUpdatedFromGauge(j) ==
    /\ task[j] = "sync"
    /\ \E q \in HeadUpdatedResults(pool, current_block[1]) :
          /\ pool' = q
          /\ after_sync' = [after_sync EXCEPT ![j] = q]
          /\ last_sync' = ContentCount(q)
    /\ calls' = [calls EXCEPT ![j] = Append(@, current_block[1])]
    /\ task' = [task EXCEPT ![j] = "count"]
    /\ UNCHANGED <<caller, cancelled, cancel_calls, lock, events, taken, closed,
                   fetch_ok, block_number, counts, current_block, ordepool_count>>
    /\ UNCHANGED <<subscribed, written>>

\* orderpool.head_updated(block_number, &state);
HeadUpdated(j) ==
    /\ task[j] = "sync"
    /\ \E q \in HeadUpdatedResults(pool, block_number[j]) :
          /\ pool' = q
          /\ after_sync' = [after_sync EXCEPT ![j] = q]
          /\ last_sync' = ContentCount(q)
    /\ calls' = [calls EXCEPT ![j] = Append(@, block_number[j])]
    /\ task' = [task EXCEPT ![j] = "count"]
    /\ UNCHANGED <<caller, cancelled, cancel_calls, lock, events, taken, closed,
                   fetch_ok, block_number, counts, current_block, ordepool_count>>
    /\ UNCHANGED <<subscribed, written>>

\* As ReadCount, but the MutexGuard is dropped as soon as the counts are read,
\* before the metrics are written.
ReadCountThenUnlock(j) ==
    /\ task[j] = "count"
    /\ counts' = [counts EXCEPT ![j] = ContentCount(pool)]
    /\ lock' = Free
    /\ task' = [task EXCEPT ![j] = "emit"]
    /\ UNCHANGED <<caller, cancelled, cancel_calls, pool, events, taken, closed,
                   fetch_ok, calls, block_number, after_sync, current_block,
                   ordepool_count>>
    /\ UNCHANGED <<subscribed, last_sync, written>>

\* let (tx_count, bundle_count) = orderpool.content_count();
ReadCount(j) ==
    /\ task[j] = "count"
    /\ counts' = [counts EXCEPT ![j] = ContentCount(pool)]
    /\ task' = [task EXCEPT ![j] = "emit"]
    /\ UNCHANGED <<caller, cancelled, cancel_calls, lock, pool, events, taken, closed,
                   fetch_ok, calls, block_number, after_sync, current_block,
                   ordepool_count>>
    /\ UNCHANGED <<subscribed, last_sync, written>>

\* set_ordepool_count(tx_count, bundle_count); debug!(.., "Cleaned orderpool");
EmitCounts(j) ==
    /\ task[j] = "emit"
    /\ ordepool_count' = counts[j]
    /\ written' = [written EXCEPT ![j] = @ \cup {"ordepool_count"}]
    /\ task' = [task EXCEPT ![j] = "unlock"]
    /\ UNCHANGED <<caller, cancelled, cancel_calls, lock, pool, events, taken, closed,
                   fetch_ok, calls, block_number, counts, after_sync, current_block>>
    /\ UNCHANGED <<subscribed, last_sync>>

\* As EndCycle, but the MutexGuard outlives the loop body (it is a variable
\* declared outside the loop).
EndCycleKeepsGuard(j) ==
    /\ task[j] = "unlock"
    /\ block_number' = [block_number EXCEPT ![j] = 0]
    /\ counts' = [counts EXCEPT ![j] = <<0, 0>>]
    /\ after_sync' = [after_sync EXCEPT ![j] = [tx |-> 0, bundle |-> 0]]
    /\ task' = [task EXCEPT ![j] = "wait"]
    /\ UNCHANGED <<caller, cancelled, cancel_calls, lock, pool, events, taken, closed,
                   fetch_ok, calls, current_block, ordepool_count>>
    /\ UNCHANGED <<subscribed, last_sync, written>>

\* As EndCycle, but the loop drains the subscription before it looks at the
\* token again: the next poll goes to the stream directly.
EndCycleThenPollStream(j) ==
    /\ task[j] = "unlock"
    /\ lock' = IF lock = j THEN Free ELSE lock
    /\ block_number' = [block_number EXCEPT ![j] = 0]
    /\ counts' = [counts EXCEPT ![j] = <<0, 0>>]
    /\ after_sync' = [after_sync EXCEPT ![j] = [tx |-> 0, bundle |-> 0]]
    /\ task' = [task EXCEPT ![j] = "poll"]
    /\ UNCHANGED <<caller, cancelled, cancel_calls, pool, events, taken, closed,
                   fetch_ok, calls, current_block, ordepool_count>>
    /\ UNCHANGED <<subscribed, last_sync, written>>

\* the closing brace of the loop body: the locals, the MutexGuard among them, drop
EndCycle(j) ==
    /\ task[j] = "unlock"
    /\ lock' = IF lock = j THEN Free ELSE lock
    /\ block_number' = [block_number EXCEPT ![j] = 0]
    /\ counts' = [counts EXCEPT ![j] = <<0, 0>>]
    /\ after_sync' = [after_sync EXCEPT ![j] = [tx |-> 0, bundle |-> 0]]
    /\ task' = [task EXCEPT ![j] = "wait"]
    /\ UNCHANGED <<caller, cancelled, cancel_calls, pool, events, taken, closed,
                   fetch_ok, calls, current_block, ordepool_count>>
    /\ UNCHANGED <<subscribed, last_sync, written>>

\* As CancelAndFinish, but the task ends after its loop without cancel().
FinishWithoutCancel(j) ==
    /\ task[j] = "exit"
    /\ task' = [task EXCEPT ![j] = "done"]
    /\ UNCHANGED <<caller, TaskVars>>

\* global_cancellation.cancel(); info!("Clean orderpool job: finished");
CancelAndFinish(j) ==
    /\ task[j] = "exit"
    /\ cancelled' = TRUE
    /\ cancel_calls' = [cancel_calls EXCEPT ![j] = @ + 1]
    /\ task' = [task EXCEPT ![j] = "done"]
    /\ UNCHANGED <<caller, lock, pool, events, taken, closed, fetch_ok, calls,
                   block_number, counts, after_sync, current_block, ordepool_count>>
    /\ UNCHANGED <<subscribed, last_sync, written>>

\* ---------------------------------------------------------- environment

\* The node sends a header on the job's open subscription.
DeliverHeader(j, budget) ==
    /\ task[j] \in LoopPcs
    /\ ~closed[j]
    /\ TotalEvents < budget
    /\ \E h \in Headers : events' = [events EXCEPT ![j] = Append(@, h)]
    /\ UNCHANGED <<caller, task, cancelled, cancel_calls, lock, pool, taken, closed,
                   fetch_ok, calls, block_number, counts, after_sync, current_block,
                   ordepool_count>>
    /\ UNCHANGED <<subscribed, last_sync, written>>

\* The transport closes: the subscription stream ends after what it buffered.
CloseStream(j) ==
    /\ task[j] \in LoopPcs
    /\ ~closed[j]
    /\ closed' = [closed EXCEPT ![j] = TRUE]
    /\ UNCHANGED <<caller, task, cancelled, cancel_calls, lock, pool, events, taken,
                   fetch_ok, calls, block_number, counts, after_sync, current_block,
                   ordepool_count>>
    /\ UNCHANGED <<subscribed, last_sync, written>>

\* Another holder of the CancellationToken cancels it.
ExternalCancel ==
    /\ ~cancelled
    /\ cancelled' = TRUE
    /\ UNCHANGED <<caller, task, cancel_calls, lock, pool, events, taken, closed,
                   fetch_ok, calls, block_number, counts, after_sync, current_block,
                   ordepool_count>>
    /\ UNCHANGED <<subscribed, last_sync, written>>

\* Another holder of the Arc<Mutex<OrderPool>> locks it, ...
MutatorLock ==
    /\ lock = Free
    /\ lock' = Mutator
    /\ UNCHANGED <<caller, task, cancelled, cancel_calls, pool, events, taken, closed,
                   fetch_ok, calls, block_number, counts, after_sync, current_block,
                   ordepool_count>>
    /\ UNCHANGED <<subscribed, last_sync, written>>

\* ... adds or removes orders, ...
MutatorChange ==
    /\ lock = Mutator
    /\ \E q \in Pools \ {pool} : pool' = q
    /\ UNCHANGED <<caller, task, cancelled, cancel_calls, lock, events, taken, closed,
                   fetch_ok, calls, block_number, counts, after_sync, current_block,
                   ordepool_count>>
    /\ UNCHANGED <<subscribed, last_sync, written>>

\* ... and unlocks it.
MutatorUnlock ==
    /\ lock = Mutator
    /\ lock' = Free
    /\ UNCHANGED <<caller, task, cancelled, cancel_calls, pool, events, taken, closed,
                   fetch_ok, calls, block_number, counts, after_sync, current_block,
                   ordepool_count>>
    /\ UNCHANGED <<subscribed, last_sync, written>>

\* ------------------------------------------------------- specification
Bootstrap(j) == Connect(j) \/ TrialSubscribe(j) \/ TrialUnsubscribe(j) \/ Spawn(j)

TaskStep(j) ==
    \/ SubscribeBlocks(j)
    \/ PollCancelled(j)
    \/ PollStream(j)
    \/ Latest(j)
    \/ Lock(j)
    \/ HeadUpdated(j)
    \/ ReadCount(j)
    \/ EmitCounts(j)
    \/ EndCycle(j)
    \/ CancelAndFinish(j)

Next ==
    \/ \E j \in Jobs : Bootstrap(j)
    \/ \E j \in Jobs : TaskStep(j)
    \/ \E j \in Jobs : DeliverHeader(j, MaxEvents)
    \/ \E j \in Jobs : CloseStream(j)
    \/ ExternalCancel
    \/ MutatorLock
    \/ MutatorChange
    \/ MutatorUnlock

Spec == Init /\ [][Next]_vars

\* The same program with the scheduling the runtime gives it: a spawned task
\* that can run is run (tokio), a task blocked on the mutex gets it when it
\* is released again and again, and the other mutators unlock.
FairNext ==
    \/ \E j \in Jobs : Bootstrap(j)
    \/ \E j \in Jobs : TaskStep(j)
    \/ \E j \in Jobs : DeliverHeader(j, MaxFairEvents)
    \/ \E j \in Jobs : CloseStream(j)
    \/ ExternalCancel
    \/ MutatorLock
    \/ MutatorChange
    \/ MutatorUnlock

Fairness ==
    /\ \A j \in Jobs : WF_vars(TaskStep(j))
    /\ \A j \in Jobs : SF_vars(Lock(j))
    /\ WF_vars(MutatorUnlock)

FairSpec == Init /\ [][FairNext]_vars /\ Fairness

\* --------------------------------------------------------------- claims

\* The number a header stands for: an absent number counts as zero.
HeaderNumber(h) == IF Len(h) = 0 THEN 0 ELSE h[1]
NumbersOf(hs) == [i \in 1 .. Len(hs) |-> HeaderNumber(hs[i])]
AllFetched(j) == \A i \in 1 .. Len(fetch_ok[j]) : fetch_ok[j][i]
\* The task is between two cycles, or past the loop.
BetweenCycles(j) == task[j] \in {"wait", "poll", "exit", "done"}

\* C1: as long as every state fetch of a job succeeded, its head_updated
\* calls are one per header taken from the stream, in arrival order, the
\* i-th call carrying the i-th header's block number; and a loop that ends
\* with the token not cancelled has taken every header of the closed stream,
\* so N delivered headers give exactly N calls.
C1_OneCallPerEventInOrder ==
    \A j \in Jobs :
        /\ (task[j] = "exit" /\ ~cancelled) => (closed[j] /\ taken[j] = Len(events[j]))
        /\ AllFetched(j) =>
              /\ Len(calls[j]) <= Len(events[j])
              /\ calls[j] = NumbersOf(SubSeq(events[j], 1, Len(calls[j])))
              /\ BetweenCycles(j) => Len(calls[j]) = taken[j]

\* C1 witness: a loop ended by stream exhaustion after two headers with
\* different numbers, both synchronized.
C1_Witness ==
    \E j \in Jobs :
        /\ task[j] = "exit" /\ ~cancelled /\ AllFetched(j)
        /\ Len(events[j]) = 2 /\ Len(calls[j]) = 2
        /\ calls[j][1] # calls[j][2]

\* C2: a task that is between its lock() and the end of its cycle owns the
\* mutex, so no two jobs, and no job and other mutator, are in the section
\* together; a task still waiting for the mutex is not in the section.
C2_MutualExclusion ==
    /\ \A j \in Jobs : task[j] \in GuardPcs => lock = j
    /\ Cardinality({j \in Jobs : task[j] \in GuardPcs})
          + (IF lock = Mutator THEN 1 ELSE 0) <= 1

\* C2 witness: a job is inside the section while the other job is blocked
\* at lock().
C2_Witness ==
    \E j \in Jobs : \E k \in Jobs :
        j # k /\ task[j] = "count" /\ lock = j /\ task[k] = "lock"

\* C3: whenever a spawned task has terminated, the token is cancelled.
C3_StoppedImpliesCancelled ==
    \A j \in Jobs : task[j] = "done" => cancelled

\* C3 witness: a task has terminated, with its one cancel() call made,
\* without having taken any header.
C3_Witness ==
    \E j \in Jobs :
        task[j] = "done" /\ cancel_calls[j] = 1 /\ taken[j] = 0 /\ ~closed[j]
                         /\ events[j] = <<>>

\* C4: a task calls cancel() at most once.
C4_CancelAtMostOnce ==
    \A j \in Jobs : cancel_calls[j] <= 1

\* C4 witness: two tasks have terminated, each with one cancel() call: one
\* after its stream was closed, the other with no header ever delivered.
C4_Witness ==
    \E j \in Jobs : \E k \in Jobs :
        /\ task[j] = "done" /\ cancel_calls[j] = 1 /\ closed[j]
        /\ task[k] = "done" /\ cancel_calls[k] = 1 /\ k # j /\ events[k] = <<>>
                           /\ ~closed[k]

\* The sequence hs without its k-th element.
Without(hs, k) == SubSeq(hs, 1, k - 1) \o SubSeq(hs, k + 1, Len(hs))
\* The state fetch of the k-th header taken failed, and no other did.
OnlyFailure(j, k) ==
    /\ k \in 1 .. Len(fetch_ok[j])
    /\ \A i \in 1 .. Len(fetch_ok[j]) : fetch_ok[j][i] <=> (i # k)
\* This step is the job's state fetch returning an error.
FetchFails(j) ==
    task[j] = "fetch" /\ fetch_ok'[j] = Append(fetch_ok[j], FALSE)

\* C5: when the state fetch failed for the k-th header only, the job's
\* head_updated calls between cycles are those of all headers taken but the
\* k-th, in arrival order; and the failing fetch itself leaves the task in
\* its loop, waiting for the next header, without a head_updated call and
\* without cancelling.
C5_OneFailureSkipsOneEvent ==
    /\ [](\A j \in Jobs : \A k \in 1 .. MaxEvents + 1 :
            (OnlyFailure(j, k) /\ BetweenCycles(j)) =>
                calls[j] = NumbersOf(Without(SubSeq(events[j], 1, taken[j]), k)))
    /\ [][\A j \in Jobs :
            FetchFails(j) =>
                /\ task'[j] = "wait"
                /\ calls'[j] = calls[j]
                /\ cancel_calls'[j] = cancel_calls[j]]_vars

\* C5 witness: the fetch for the first header (number 1) failed, the loop
\* went on, and the second header (no number, so 0) was synchronized.
C5_Witness ==
    \E j \in Jobs :
        /\ events[j] = << <<1>>, <<>> >>
        /\ fetch_ok[j] = <<FALSE, TRUE>>
        /\ calls[j] = <<0>>
        /\ task[j] = "wait"

\* C6: a task that is at the wait for the next header while the token is
\* cancelled takes no further header and makes no further fetch or
\* head_updated call: its only step is to leave the loop, whatever the
\* subscription has buffered; and once out of the loop it stays out.
C6_CancelledWaitTakesNothing ==
    [][\A j \in Jobs :
          ((task[j] = "wait" /\ cancelled) \/ task[j] \in {"exit", "done"}) =>
              /\ task'[j] \in (IF task[j] = "wait" THEN {"wait", "exit"}
                                                   ELSE {"exit", "done"})
              /\ taken'[j] = taken[j]
              /\ fetch_ok'[j] = fetch_ok[j]
              /\ calls'[j] = calls[j]]_vars

\* C6 witness: a loop was left on a cancellation that no job made, with a
\* delivered header still unread in the subscription.
C6_Witness ==
    \E j \in Jobs :
        /\ task[j] = "exit" /\ cancelled
        /\ taken[j] < Len(events[j])
        /\ \A k \in Jobs : cancel_calls[k] = 0

\* C7: a bootstrap that failed (connection or trial subscription) has
\* returned the error and nothing else: no task exists for that invocation,
\* which has taken no header, fetched no state, made no head_updated call and
\* no cancel() call; the outcome is final; and a task exists only for an
\* invocation that returned a handle.
C7_BootstrapFailureSpawnsNothing ==
    /\ [](\A j \in Jobs :
            /\ caller[j] \in {"err_connect", "err_subscribe"} =>
                  /\ task[j] = "none"
                  /\ taken[j] = 0 /\ events[j] = <<>>
                  /\ fetch_ok[j] = <<>> /\ calls[j] = <<>>
                  /\ cancel_calls[j] = 0
            /\ task[j] # "none" => caller[j] = "handle")
    /\ [][\A j \in Jobs :
            caller[j] \in {"err_connect", "err_subscribe"} => caller'[j] = caller[j]]_vars

\* C7 witness: one invocation failed to connect, the other had its trial
\* subscription rejected.
C7_Witness ==
    \E j \in Jobs : \E k \in Jobs :
        caller[j] = "err_connect" /\ caller[k] = "err_subscribe"

\* C8: the counts a cycle holds after content_count, and the gauges it has
\* written, are the counts of the pool as that cycle's head_updated left it.
C8_CountsAreThoseAfterOwnSync ==
    \A j \in Jobs :
        /\ task[j] \in {"emit", "unlock"} =>
              counts[j] = <<after_sync[j].tx, after_sync[j].bundle>>
        /\ task[j] = "unlock" =>
              ordepool_count = <<after_sync[j].tx, after_sync[j].bundle>>

\* C8 witness: a cycle has reported the counts of a non-empty pool while
\* the other job waits to get in.
C8_Witness ==
    \E j \in Jobs : \E k \in Jobs :
        /\ j # k /\ task[j] = "unlock" /\ task[k] = "lock"
        /\ ordepool_count = <<0, 1>> /\ counts[j] = <<0, 1>>

\* C9: once a task has terminated the token is cancelled for all, and every
\* sibling task that is running, then or later, terminates too.
C9_SiblingsStop ==
    /\ [](\A j \in Jobs : \A k \in Jobs :
            (task[j] = "done" /\ task[k] \in LoopPcs) => cancelled)
    /\ \A k \in Jobs :
          ((\E j \in Jobs \ {k} : task[j] = "done") /\ task[k] \notin {"none", "done"})
              ~> (task[k] = "done")

\* C9 witness: a task has terminated while its sibling is in the middle of
\* a cycle, inside the pool.
C9_Witness ==
    \E j \in Jobs : \E k \in Jobs :
        task[j] = "done" /\ task[k] \in GuardPcs

C11_SubscriptionErrorRunsNoCycle ==
    \A j \in Jobs :
        ~subscribed[j] =>
            /\ task[j] \in {"none", "subscribe", "done"}
            /\ taken[j] = 0 /\ events[j] = <<>>
            /\ fetch_ok[j] = <<>> /\ calls[j] = <<>>
            /\ written[j] = {}
            /\ lock # j
            /\ task[j] = "done" => (cancelled /\ cancel_calls[j] = 1)

\* C11 witness: a task has terminated on the subscription error while its
\* sibling has synchronized the pool.
C11_Witness ==
    \E j \in Jobs : \E k \in Jobs :
        /\ task[j] = "done" /\ ~subscribed[j]
        /\ k # j /\ Len(calls[k]) >= 1

\* C12: a task that is in its loop has made no cancel() call, so a token
\* found cancelled there was cancelled by someone else; and the step in which
\* a state fetch fails changes neither the token nor any cancel() count and
\* leaves the task in the loop.
C12_FetchFailureDoesNotCancel ==
    /\ [](\A j \in Jobs : task[j] \in LoopPcs => cancel_calls[j] = 0)
    /\ [][\A j \in Jobs :
            FetchFails(j) =>
                /\ cancelled' = cancelled
                /\ cancel_calls' = cancel_calls
                /\ task'[j] \in LoopPcs]_vars

\* C12 witness: both fetches of a task failed, it is back at the wait and
\* the token is not cancelled.
C12_Witness ==
    \E j \in Jobs :
        fetch_ok[j] = <<FALSE, FALSE>> /\ task[j] = "wait" /\ ~cancelled

\* The last cycle of the task is over and its state fetch had failed.
LastCycleFailed(j) ==
    /\ BetweenCycles(j)
    /\ Len(fetch_ok[j]) > 0
    /\ ~fetch_ok[j][Len(fetch_ok[j])]

\* C13 as stated: a cycle whose state fetch failed has written no gauge.
C13_AsStated ==
    \A j \in Jobs : LastCycleFailed(j) => written[j] = {}

\* C13: a cycle whose state fetch failed has written the current-block
\* gauge (before the fetch) and no other gauge; the failing fetch ends the
\* cycle at once: the task is back at the wait, it does not own and did not
\* take the mutex, and pool, count gauges and head_updated calls are as they
\* were.
C13_FailedCycleOnlySetsCurrentBlock ==
    /\ [](\A j \in Jobs : LastCycleFailed(j) => written[j] = {"current_block"})
    /\ [][\A j \in Jobs :
            FetchFails(j) =>
                /\ task'[j] = "wait"
                /\ lock # j /\ lock' = lock
                /\ pool' = pool
                /\ ordepool_count' = ordepool_count
                /\ current_block' = current_block
                /\ last_sync' = last_sync
                /\ calls' = calls]_vars

\* C13 witness: the fetch for a header numbered 1 failed; the current-block
\* gauge shows 1, the count gauges were never written, the task waits.
C13_Witness ==
    \E j \in Jobs :
        /\ events[j] = << <<1>> >> /\ fetch_ok[j] = <<FALSE>>
        /\ task[j] = "wait"
        /\ written[j] = {"current_block"}
        /\ current_block = <<1>> /\ ordepool_count = Unset

\* Positions of the task inside one cycle (a header is taken, the loop body runs).
CyclePcs == {"fetch", "lock", "sync", "count", "emit", "unlock"}
\* How many state fetches of the task succeeded.
FetchedOk(j) == Cardinality({i \in 1 .. Len(fetch_ok[j]) : fetch_ok[j][i]})
\* What a finished cycle has written, by the outcome of its state fetch.
WrittenBy(ok) == IF ok THEN {"current_block", "ordepool_count"} ELSE {"current_block"}

\* C14: at most one cycle of a task is unfinished, and it is the cycle of
\* the header taken last; a header is taken one at a time, the next one in
\* arrival order, and only when every earlier header has had its cycle to the
\* end: its fetch done, its head_updated call and its count metrics made if
\* the fetch succeeded, the mutex released and the cycle's locals dropped.
C14_OneCycleAtATime ==
    /\ [](\A j \in Jobs :
            /\ taken[j] <= Len(events[j])
            /\ Len(fetch_ok[j]) <= taken[j] /\ taken[j] <= Len(fetch_ok[j]) + 1
            /\ task[j] \in CyclePcs =>
                  /\ taken[j] >= 1
                  /\ block_number[j] = HeaderNumber(events[j][taken[j]])
            /\ BetweenCycles(j) => Len(fetch_ok[j]) = taken[j])
    /\ [][\A j \in Jobs :
            taken'[j] # taken[j] =>
                /\ taken'[j] = taken[j] + 1
                /\ task[j] = "poll" /\ task'[j] = "fetch"
                /\ Len(fetch_ok[j]) = taken[j]
                /\ Len(calls[j]) = FetchedOk(j)
                /\ taken[j] > 0 => written[j] = WrittenBy(fetch_ok[j][taken[j]])
                /\ lock # j
                /\ block_number[j] = 0]_vars

\* C14 witness: the second header is taken, after the first one's cycle ran
\* to its end with a head_updated call and its metrics.
C14_Witness ==
    \E j \in Jobs :
        /\ task[j] = "fetch" /\ taken[j] = 2
        /\ fetch_ok[j] = <<TRUE>> /\ Len(calls[j]) = 1
        /\ ordepool_count # Unset /\ lock # j

\* C15: the result of the trial teardown, Ok or Err, never makes the
\* bootstrap fail and never touches the token: with either result in hand
\* the next step of the bootstrap spawns the task and returns the handle, the
\* same for both.
C15_TeardownFailureIgnored ==
    /\ [](\A j \in Jobs :
            caller[j] \in {"trial_unsub", "unsub_ok", "unsub_err"} =>
                (task[j] = "none" /\ cancel_calls[j] = 0))
    /\ [][\A j \in Jobs :
            /\ caller[j] = "trial_unsub" =>
                  caller'[j] \in {"trial_unsub", "unsub_ok", "unsub_err"}
            /\ (caller[j] \in {"trial_unsub", "unsub_ok", "unsub_err"}
                    /\ caller'[j] # caller[j]) =>
                  /\ cancelled' = cancelled
                  /\ cancel_calls' = cancel_calls
            /\ (caller[j] \in {"unsub_ok", "unsub_err"} /\ caller'[j] # caller[j]) =>
                  /\ caller'[j] = "handle"
                  /\ task'[j] = "subscribe"]_vars

\* C15 witness: the trial teardown of one invocation has failed, that of
\* the other has succeeded; neither has a task yet and the token is untouched.
C15_Witness ==
    \E j \in Jobs : \E k \in Jobs :
        caller[j] = "unsub_err" /\ caller[k] = "unsub_ok" /\ ~cancelled

\* C16: a task in its loop whose stream the transport has closed ends up
\* terminated, with every header it took run through its cycle, the mutex
\* not held and the token cancelled.
C16_ExhaustedStreamEndsJob ==
    \A j \in Jobs :
        (closed[j] /\ task[j] \in LoopPcs) ~>
            (task[j] = "done" /\ cancelled /\ lock # j /\ Len(fetch_ok[j]) = taken[j])

\* C16 witness: a task has terminated after its closed stream gave its one
\* header, whose cycle synchronized the pool.
C16_Witness ==
    \E j \in Jobs :
        /\ task[j] = "done" /\ closed[j]
        /\ taken[j] = 1 /\ Len(events[j]) = 1 /\ Len(calls[j]) = 1
        /\ cancel_calls[j] = 1

\* C17: a task that waits for the next header, or is past its loop, or has
\* terminated, does not own the mutex; whoever of the jobs owns it is inside
\* a cycle; and a task leaves the section only by releasing the mutex.
C17_NoLockOutsideCycle ==
    /\ [](\A j \in Jobs :
            /\ task[j] \in {"wait", "poll", "exit", "done"} => lock # j
            /\ lock = j => task[j] \in CyclePcs)
    /\ [][\A j \in Jobs :
            (task[j] \in GuardPcs /\ task'[j] \notin GuardPcs) =>
                (lock = j /\ lock' = Free /\ task'[j] = "wait")]_vars

\* C17 witness: a task is back at the wait after a cycle of its own, and
\* the other mutator has been able to take the mutex.
C17_Witness ==
    \E j \in Jobs :
        task[j] = "wait" /\ Len(calls[j]) >= 1 /\ lock = Mutator

\* Positions from which, with the token cancelled, no head_updated call of
\* the task is ahead.
PastSyncPcs == {"count", "emit", "unlock", "wait", "exit", "done"}

\* C18: the token stays cancelled; a cycle that has started runs on without
\* looking at the token (from inside a cycle the task only moves on in the
\* cycle or back to the wait); and with the token cancelled a task that has
\* made its head_updated call, or is at the wait, makes no further one, while
\* any call it does make puts it there: so it makes at most one call once
\* the token is cancelled.
C18_AtMostOneSyncAfterCancel ==
    [][\A j \in Jobs :
          /\ cancelled => cancelled'
          /\ task[j] \in CyclePcs => task'[j] \in CyclePcs \cup {"wait"}
          /\ (cancelled /\ task[j] \in PastSyncPcs) =>
                (task'[j] \in PastSyncPcs /\ calls'[j] = calls[j])
          /\ calls'[j] # calls[j] =>
                (Len(calls'[j]) = Len(calls[j]) + 1 /\ task'[j] = "count")]_vars

\* C18 witness: the token is cancelled and a task that had taken its header
\* is about to make its head_updated call.
C18_Witness ==
    \E j \in Jobs :
        cancelled /\ task[j] = "sync" /\ lock = j /\ taken[j] = Len(calls[j]) + 1

\* C19: whenever no job owns the mutex and some job has synchronized the
\* pool, the count gauges hold the counts the latest head_updated call left.
C19_GaugesFollowLatestSync ==
    (lock \notin Jobs /\ last_sync # Unset) => ordepool_count = last_sync

\* C19 witness: both jobs have synchronized the pool, no job owns the mutex,
\* and the gauges show the non-empty pool the later call left.
C19_Witness ==
    /\ \A j \in Jobs : Len(calls[j]) = 1
    /\ lock \notin Jobs
    /\ last_sync = <<1, 0>> /\ ordepool_count = <<1, 0>>

====
